---- MODULE Spec2Model ----
(***************************************************************************)
(* A model of src/app.py: the Flask upload service in front of one Azure   *)
(* Blob Storage container.  Strings whose characters the code inspects     *)
(* (filenames, content types, blob names, URLs) are sequences of           *)
(* one-character strings; messages the code only passes on are TLA+        *)
(* strings.                                                                *)
(***************************************************************************)
EXTENDS Integers, Sequences, FiniteSets, TLC

VARIABLES phase, conn, cc, now, store, nput, last, prev, pc, loc, resp, applied

vars == <<phase, conn, cc, now, store, nput, last, prev, pc, loc, resp, applied>>

(***************************************************************************)
(* Bounds of the model.                                                    *)
(***************************************************************************)
\* The clock is read at now = 0 .. MaxClock seconds after ClockOrigin.
MaxClock == 1
\* At most MaxPuts put-object calls are made in one behaviour.
MaxPuts == 2

(***************************************************************************)
(* Characters.                                                             *)
(***************************************************************************)
\* The characters in use, in ascending code-point order; "U+65E5" stands for
\* the one non-ASCII character (it has no NFKD decomposition into ASCII).
Chars ==
  << " ", "-", ".", "/",
     "0", "1", "2", "3", "4", "5", "6", "7", "8", "9", ":",
     "A", "B", "C", "D", "E", "F", "G", "H", "I", "J", "K", "L", "M",
     "N", "O", "P", "Q", "R", "S", "T", "U", "V", "W", "X", "Y", "Z",
     "_",
     "a", "b", "c", "d", "e", "f", "g", "h", "i", "j", "k", "l", "m",
     "n", "o", "p", "q", "r", "s", "t", "u", "v", "w", "x", "y", "z",
     "U+65E5" >>

Ord(c) == CHOOSE i \in 1..Len(Chars) : Chars[i] = c

Digits == <<"0", "1", "2", "3", "4", "5", "6", "7", "8", "9">>

IsDigit(c) == \E i \in 1..Len(Digits) : Digits[i] = c

UpperCase ==
  << "A", "B", "C", "D", "E", "F", "G", "H", "I", "J", "K", "L", "M",
     "N", "O", "P", "Q", "R", "S", "T", "U", "V", "W", "X", "Y", "Z" >>

LowerCase ==
  << "a", "b", "c", "d", "e", "f", "g", "h", "i", "j", "k", "l", "m",
     "n", "o", "p", "q", "r", "s", "t", "u", "v", "w", "x", "y", "z" >>

\* str.lower(), one character.
LowerChar(c) ==
  IF \E i \in 1..Len(UpperCase) : UpperCase[i] = c
  THEN LowerCase[CHOOSE i \in 1..Len(UpperCase) : UpperCase[i] = c]
  ELSE c

\* str.lower()
Lower(s) == [i \in 1..Len(s) |-> LowerChar(s[i])]

\* str.startswith(prefix)
StartsWith(s, prefix) ==
  /\ Len(prefix) <= Len(s)
  /\ SubSeq(s, 1, Len(prefix)) = prefix

\* Python's order of str: by code point, a proper prefix first.
LexLess(a, b) ==
  \E i \in 1..(Len(a) + 1) :
    /\ \A j \in 1..(i - 1) : j <= Len(b) /\ a[j] = b[j]
    /\ \/ i = Len(a) + 1 /\ Len(b) >= i
       \/ i <= Len(a) /\ i <= Len(b) /\ Ord(a[i]) < Ord(b[i])

\* str.strip(chars), the left end.
RECURSIVE LStrip(_, _)
LStrip(s, chars) ==
  IF s # <<>> /\ Head(s) \in chars THEN LStrip(Tail(s), chars) ELSE s

\* str.strip(chars), the right end.
RECURSIVE RStrip(_, _)
RStrip(s, chars) ==
  IF s # <<>> /\ s[Len(s)] \in chars
  THEN RStrip(SubSeq(s, 1, Len(s) - 1), chars)
  ELSE s

\* str.strip(chars)
Strip(s, chars) == RStrip(LStrip(s, chars), chars)

(***************************************************************************)
(* Configuration.                                                          *)
(***************************************************************************)
MAX_FILE_SIZE == 10 * 1024 * 1024

\* app.config['MAX_CONTENT_LENGTH']
MAX_CONTENT_LENGTH == MAX_FILE_SIZE

ALLOWED_EXTENSIONS ==
  { <<"p", "n", "g">>, <<"j", "p", "g">>, <<"j", "p", "e", "g">>,
    <<"g", "i", "f">>, <<"b", "m", "p">>, <<"w", "e", "b", "p">>,
    <<"t", "i", "f", "f">> }

\* cc.url, the container's URL (account host and container name shortened).
cc_url == <<"h", "t", "t", "p", "s", ":", "/", "/", "a", "/", "i">>

(***************************************************************************)
(* is_allowed_file                                                         *)
(***************************************************************************)
\* filename.rsplit('.', 1)[1], for a filename that holds a '.'.
AfterLastDot(filename) ==
  LET dot == CHOOSE i \in 1..Len(filename) :
               /\ filename[i] = "."
               /\ \A j \in (i + 1)..Len(filename) : filename[j] # "."
  IN  SubSeq(filename, dot + 1, Len(filename))

is_allowed_file(filename) ==
  /\ \E i \in 1..Len(filename) : filename[i] = "."
  /\ Lower(AfterLastDot(filename)) \in ALLOWED_EXTENSIONS

(***************************************************************************)
(* werkzeug.utils.secure_filename, as generate_blob_name calls it.         *)
(***************************************************************************)
IsAscii(c) == c # "U+65E5"

\* [A-Za-z0-9_.-], the characters _filename_ascii_strip_re keeps.
IsKeyChar(c) ==
  \/ c \in {"_", ".", "-"}
  \/ IsDigit(c)
  \/ \E i \in 1..Len(UpperCase) : UpperCase[i] = c \/ LowerCase[i] = c

\* "_".join(s.split()): runs of blanks become one "_", blanks at the ends go.
JoinSplit(s) ==
  LET t    == Strip(s, {" "})
      keep == { i \in 1..Len(t) : t[i] # " " \/ t[i - 1] # " " }
      nth(k) == CHOOSE i \in keep : Cardinality({ j \in keep : j < i }) = k - 1
  IN  [k \in 1..Cardinality(keep) |->
         IF t[nth(k)] = " " THEN "_" ELSE t[nth(k)]]

secure_filename(filename) ==
  LET ascii  == SelectSeq(filename, IsAscii)
      nosep  == [i \in 1..Len(ascii) |-> IF ascii[i] = "/" THEN " " ELSE ascii[i]]
      joined == JoinSplit(nosep)
      kept   == SelectSeq(joined, IsKeyChar)
  IN  Strip(kept, {".", "_"})

(***************************************************************************)
(* generate_blob_name                                                      *)
(***************************************************************************)
\* The instant the clock shows at now = 0: 2025-01-01 23:59:59 UTC.
ClockOrigin == [year |-> 2025, month |-> 1, day |-> 1, second |-> 86399]

\* datetime.utcnow() when the clock shows t; days stay within January.
utcnow(t) ==
  LET total == ClockOrigin.second + t
  IN  [ year   |-> ClockOrigin.year,
        month  |-> ClockOrigin.month,
        day    |-> ClockOrigin.day + (total \div 86400),
        hour   |-> (total \div 3600) % 24,
        minute |-> (total \div 60) % 60,
        second |-> total % 60 ]

RECURSIVE Pow10(_)
Pow10(k) == IF k = 0 THEN 1 ELSE 10 * Pow10(k - 1)

\* A number as w decimal digits, zero-padded (%Y, %m, %d, %H, %M, %S).
Pad(n, w) == [i \in 1..w |-> Digits[((n \div Pow10(w - i)) % 10) + 1]]

\* dt.strftime('%Y%m%dT%H%M%S')
strftime(dt) ==
  Pad(dt.year, 4) \o Pad(dt.month, 2) \o Pad(dt.day, 2) \o <<"T">>
    \o Pad(dt.hour, 2) \o Pad(dt.minute, 2) \o Pad(dt.second, 2)

\* generate_blob_name without secure_filename.
generate_blob_name_raw(original_filename, t) ==
  strftime(utcnow(t)) \o <<"-">> \o original_filename

\* f"{timestamp}-{safe_filename}", the clock showing t.
generate_blob_name(original_filename, t) ==
  strftime(utcnow(t)) \o <<"-">> \o secure_filename(original_filename)

\* f"{cc.url}/{blob_name}"
blob_url(blob_name) == cc_url \o <<"/">> \o blob_name

(***************************************************************************)
(* The container: a set of blobs, each a name with content and content     *)
(* type.                                                                   *)
(***************************************************************************)
Blob(name, content, content_type) ==
  [name |-> name, content |-> content, content_type |-> content_type]

BlobNames(s) == { b.name : b \in s }

\* upload_blob that adds the blob beside one of the same name.
upload_blob_add(s, name, content, content_type) ==
  s \cup { Blob(name, content, content_type) }

\* upload_blob that leaves a blob of the same name as it is.
upload_blob_keep_first(s, name, content, content_type) ==
  IF name \in BlobNames(s) THEN s ELSE s \cup { Blob(name, content, content_type) }

\* upload_blob that empties the container first.
upload_blob_wipe(s, name, content, content_type) ==
  { Blob(name, content, content_type) }

\* blob_client.upload_blob(content, overwrite=True, content_settings=...)
upload_blob(s, name, content, content_type) ==
  { b \in s : b.name # name } \cup { Blob(name, content, content_type) }

\* cc.list_blobs(): the blobs, each once, in an order the service chooses.
list_blobs(s) ==
  { l \in [1..Cardinality(s) -> s] :
      \A i, j \in 1..Cardinality(s) : i # j => l[i] # l[j] }

\* What a call to the store does: it returns, or it raises one of these.
StoreErrors == {"ServiceRequestError"}

StoreOutcomes == {"ok"} \cup StoreErrors

(***************************************************************************)
(* Requests.                                                               *)
(***************************************************************************)
Filenames ==
  { <<>>,
    <<"a">>,
    <<"a", ".", "t", "x", "t">>,
    <<".", ".", "/", "U+65E5", "a", ".", "P", "N", "G">>,
    <<".", "g", "i", "f">> }

\* f.content_type; a part without the header has none, which is as falsy as "".
ContentTypes ==
  { <<>>,
    <<"t", "e", "x", "t", "/", "p", "l", "a", "i", "n">>,
    <<"i", "m", "a", "g", "e", "/", "p", "n", "g">>,
    <<"i", "m", "a", "g", "e", "/", "g", "i", "f">> }

ImagePng == <<"i", "m", "a", "g", "e", "/", "p", "n", "g">>

Contents == {"bytes1", "bytes2"}

\* request.content_length: at the limit, and one byte over it.
ContentLengths == {MAX_CONTENT_LENGTH, MAX_CONTENT_LENGTH + 1}

UploadRequest(hasFile, filename, content_type, content, content_length) ==
  [ hasFile |-> hasFile, filename |-> filename, content_type |-> content_type,
    content |-> content, content_length |-> content_length ]

ImageGif == <<"i", "m", "a", "g", "e", "/", "g", "i", "f">>

\* The files sent under an allowed name: a type and a content each.
Images ==
  { <<ImagePng, "bytes1">>, <<ImagePng, "bytes2">>, <<ImageGif, "bytes2">> }

\* The requests that pass the four checks of upload.
ValidRequests ==
  { UploadRequest(TRUE, f, i[1], i[2], MAX_CONTENT_LENGTH) :
      f \in { g \in Filenames : is_allowed_file(g) }, i \in Images }

\* A request without a form field `file` has no filename, type or content.
\* The content of a request that fails a check is never read, and the form of
\* a request over the limit is never parsed, so those vary less.
UploadRequests ==
  { UploadRequest(FALSE, <<>>, <<>>, "bytes1", n) : n \in ContentLengths }
    \cup
  { UploadRequest(TRUE, f, t, "bytes1", MAX_CONTENT_LENGTH) :
      f \in Filenames, t \in ContentTypes }
    \cup
  ValidRequests
    \cup
  { UploadRequest(TRUE, f, ImagePng, "bytes1", MAX_CONTENT_LENGTH + 1) :
      f \in {<<"a", ".", "t", "x", "t">>, <<".", "g", "i", "f">>} }

NoRequest == UploadRequest(FALSE, <<>>, <<>>, "bytes1", 0)

(***************************************************************************)
(* Replies.  `line` is the line of src/app.py whose return statement made   *)
(* the reply (0: no statement of a handler made it), `calls` the store      *)
(* calls the handler made, `raised` what the try block raised ("": nothing) *)
(* and `store` the container after the request.                            *)
(***************************************************************************)
Reply(status, body, line, calls, raised, s) ==
  [ status |-> status, body |-> body, line |-> line, calls |-> calls,
    raised |-> raised, store |-> s ]

\* str(e) of werkzeug's RequestEntityTooLarge
TooLarge ==
  "413 Request Entity Too Large: The data value transmitted exceeds the capacity limit."

\* upload_checks with the content-type check before the extension check.
upload_checks_type_first(req, s) ==
  IF req.content_length > MAX_CONTENT_LENGTH
  THEN Reply(500, [ok |-> FALSE, error |-> TooLarge], 84, 0, TooLarge, s)
  ELSE IF ~req.hasFile
  THEN Reply(400, [ok |-> FALSE, error |-> "No file provided"], 44, 0, "", s)
  ELSE IF req.filename = <<>>
  THEN Reply(400, [ok |-> FALSE, error |-> "No file selected"], 50, 0, "", s)
  ELSE IF req.content_type = <<>>
            \/ ~StartsWith(req.content_type, <<"i", "m", "a", "g", "e", "/">>)
  THEN Reply(400, [ok |-> FALSE, error |-> "File must be an image"], 58, 0, "", s)
  ELSE IF ~is_allowed_file(req.filename)
  THEN Reply(400, [ok |-> FALSE,
                   error |-> "Invalid file type. Only image files allowed."],
             54, 0, "", s)
  ELSE Reply(0, [ok |-> TRUE], 0, 0, "", s)

\* upload, lines 43-58: the reply of the first check that fails, or line 0
\* when all pass.  request.files parses the form, which raises
\* RequestEntityTooLarge for a body over MAX_CONTENT_LENGTH; the handler's
\* except clause answers it.
upload_checks(req, s) ==
  IF req.content_length > MAX_CONTENT_LENGTH
  THEN Reply(500, [ok |-> FALSE, error |-> TooLarge], 84, 0, TooLarge, s)
  ELSE IF ~req.hasFile
  THEN Reply(400, [ok |-> FALSE, error |-> "No file provided"], 44, 0, "", s)
  ELSE IF req.filename = <<>>
  THEN Reply(400, [ok |-> FALSE, error |-> "No file selected"], 50, 0, "", s)
  ELSE IF ~is_allowed_file(req.filename)
  THEN Reply(400, [ok |-> FALSE,
                   error |-> "Invalid file type. Only image files allowed."],
             54, 0, "", s)
  ELSE IF req.content_type = <<>>
            \/ ~StartsWith(req.content_type, <<"i", "m", "a", "g", "e", "/">>)
  THEN Reply(400, [ok |-> FALSE, error |-> "File must be an image"], 58, 0, "", s)
  ELSE Reply(0, [ok |-> TRUE], 0, 0, "", s)

\* upload_put that calls put-object again when the first call raised.
upload_put_retry(req, blob_name, outcome, s) ==
  Reply(200, [ok |-> TRUE, url |-> blob_url(blob_name)], 80,
        IF outcome = "ok" THEN 1 ELSE 2, "",
        upload_blob(s, blob_name, req.content, req.content_type))

\* upload, lines 64-84: the one put-object call and the reply after it.
upload_put(req, blob_name, outcome, s) ==
  IF outcome = "ok"
  THEN Reply(200, [ok |-> TRUE, url |-> blob_url(blob_name)], 80, 1, "",
             upload_blob(s, blob_name, req.content, req.content_type))
  ELSE Reply(500, [ok |-> FALSE, error |-> outcome], 84, 1, outcome, s)

\* upload, the whole handler, the clock showing t.
upload(req, outcome, t, s) ==
  LET checked == upload_checks(req, s)
  IN  IF checked.line # 0
      THEN checked
      ELSE upload_put(req, generate_blob_name(req.filename, t), outcome, s)

\* list.sort(reverse=True): insertion into a descending list, after its equals.
RECURSIVE InsertDescending(_, _)
InsertDescending(x, l) ==
  IF l = <<>> THEN <<x>>
  ELSE IF LexLess(Head(l), x) THEN <<x>> \o l
  ELSE <<Head(l)>> \o InsertDescending(x, Tail(l))

RECURSIVE SortDescending(_)
SortDescending(l) ==
  IF l = <<>> THEN <<>>
  ELSE InsertDescending(l[Len(l)], SortDescending(SubSeq(l, 1, Len(l) - 1)))

\* gallery_urls without the sort.
gallery_urls_unsorted(blob_list) ==
  [i \in 1..Len(blob_list) |-> blob_url(blob_list[i].name)]

\* gallery, lines 93-96
gallery_urls(blob_list) ==
  SortDescending([i \in 1..Len(blob_list) |-> blob_url(blob_list[i].name)])

\* gallery, the whole handler; blob_list is what cc.list_blobs() yields.
gallery(blob_list, outcome, s) ==
  IF outcome = "ok"
  THEN Reply(200, [ok |-> TRUE, gallery |-> gallery_urls(blob_list)], 98, 1, "", s)
  ELSE Reply(500, [ok |-> FALSE, error |-> outcome], 102, 1, outcome, s)

\* health that reports a failed probe as UNHEALTHY.
health_unhealthy_on_error(client, outcome, s) ==
  IF client = "None" \/ outcome # "ok"
  THEN Reply(503, [status |-> "UNHEALTHY",
                   message |-> "Storage client failed to initialize"],
             108, IF client = "None" THEN 0 ELSE 1,
             IF client = "None" THEN "" ELSE outcome, s)
  ELSE Reply(200, [status |-> "OK",
                   message |-> "Azure Storage connection successful"],
             114, 1, "", s)

\* health, the whole handler; client is the value of the global cc.
health(client, outcome, s) ==
  IF client = "None"
  THEN Reply(503, [status |-> "UNHEALTHY",
                   message |-> "Storage client failed to initialize"],
             108, 0, "", s)
  ELSE IF outcome = "ok"
  THEN Reply(200, [status |-> "OK",
                   message |-> "Azure Storage connection successful"],
             114, 1, "", s)
  ELSE Reply(503, [status |-> "DEGRADED",
                   message |-> "Storage connection failed: " \o outcome],
             116, 1, outcome, s)

\* index
index(s) == Reply(200, [html |-> "index.html"], 37, 0, "", s)

(***************************************************************************)
(* State.                                                                  *)
(*   phase    "boot" while the module body runs, then "serving", or        *)
(*            "crashed" when the module body raised                        *)
(*   conn     AZURE_STORAGE_CONNECTION_STRING                              *)
(*   cc       the global container client                                  *)
(*   now      the clock, in seconds after ClockOrigin                      *)
(*   store    the container's blobs                                        *)
(*   nput     the put-object calls made so far                             *)
(*   last     the request answered last, with its reply                    *)
(*   prev     the successful upload before `last`                          *)
(*   pc, loc, resp, applied                                                *)
(*            two uploads handled at once: each worker's position, its     *)
(*            locals and reply, and the workers whose put the store        *)
(*            applied, in order                                            *)
(***************************************************************************)
ConnectionStrings == {"None", "malformed", "valid"}

Workers == {1, 2}

NoLast ==
  [ op |-> "none", req |-> NoRequest, at |-> 0, status |-> 0,
    body |-> [ok |-> FALSE], line |-> 0, calls |-> 0, raised |-> "",
    before |-> {} ]

NoPrev ==
  [ some |-> FALSE, filename |-> <<>>, at |-> 0, url |-> <<>>,
    content |-> "", content_type |-> <<>> ]

NoLocals == [req |-> NoRequest, blob_name |-> <<>>, at |-> 0]

NoReply == Reply(0, [ok |-> FALSE], 0, 0, "", {})

Init ==
  /\ phase = "boot"
  /\ conn \in ConnectionStrings
  /\ cc = "unset"
  /\ now = 0
  /\ store = {}
  /\ nput = 0
  /\ last = NoLast
  /\ prev = NoPrev
  /\ pc = [w \in Workers |-> "idle"]
  /\ loc = [w \in Workers |-> NoLocals]
  /\ resp = [w \in Workers |-> NoReply]
  /\ applied = <<>>

\* Lines 12-22: BlobServiceClient.from_connection_string raises on a missing
\* or malformed connection string, outside any try: the import fails and the
\* process ends before app exists.
Startup ==
  /\ phase = "boot"
  /\ IF conn = "valid"
     THEN phase' = "serving" /\ cc' = "ContainerClient"
     ELSE phase' = "crashed" /\ cc' = cc
  /\ UNCHANGED <<conn, now, store, nput, last, prev, pc, loc, resp, applied>>

\* A second passes.
Tick ==
  /\ phase = "serving"
  /\ now < MaxClock
  /\ now' = now + 1
  /\ UNCHANGED <<phase, conn, cc, store, nput, last, prev, pc, loc, resp, applied>>

\* The successful upload a reply records, if it is one.
Remember(l) ==
  IF l.op = "upload" /\ l.status = 200
  THEN [ some |-> TRUE, filename |-> l.req.filename, at |-> l.at,
         url |-> l.body.url, content |-> l.req.content,
         content_type |-> l.req.content_type ]
  ELSE prev

\* A request answered: the reply r to request req of endpoint op.
Answer(op, req, r) ==
  /\ last' = [ op |-> op, req |-> req, at |-> now, status |-> r.status,
               body |-> r.body, line |-> r.line, calls |-> r.calls,
               raised |-> r.raised, before |-> store ]
  /\ prev' = Remember(last)
  /\ store' = r.store

Index ==
  /\ phase = "serving"
  /\ Answer("index", NoRequest, index(store))
  /\ UNCHANGED <<phase, conn, cc, now, nput, pc, loc, resp, applied>>

Upload ==
  /\ phase = "serving"
  /\ nput < MaxPuts
  /\ \E req \in UploadRequests :
       \E outcome \in IF upload_checks(req, store).line # 0
                       THEN {"ok"} ELSE StoreOutcomes :
         LET r == upload(req, outcome, now, store)
         IN  /\ Answer("upload", req, r)
             /\ nput' = nput + r.calls
  /\ UNCHANGED <<phase, conn, cc, now, pc, loc, resp, applied>>

Gallery ==
  /\ phase = "serving"
  /\ \E blob_list \in list_blobs(store), outcome \in StoreOutcomes :
       Answer("gallery", NoRequest, gallery(blob_list, outcome, store))
  /\ UNCHANGED <<phase, conn, cc, now, nput, pc, loc, resp, applied>>

Health ==
  /\ phase = "serving"
  /\ \E outcome \in StoreOutcomes :
       Answer("health", NoRequest, health(cc, outcome, store))
  /\ UNCHANGED <<phase, conn, cc, now, nput, pc, loc, resp, applied>>

Next == Startup \/ Tick \/ Index \/ Upload \/ Gallery \/ Health

\* One request at a time.
Spec == Init /\ [][Next]_vars

(***************************************************************************)
(* Two uploads handled at once, one per worker thread.  A handler touches  *)
(* shared state twice: it reads the clock in generate_blob_name, and it    *)
(* calls put-object, which the store applies atomically.                   *)
(***************************************************************************)
\* upload, lines 43-61: the checks and the blob name.
Receive(w) ==
  /\ phase = "serving"
  /\ pc[w] = "idle"
  /\ \E req \in UploadRequests :
       LET checked == upload_checks(req, store)
       IN  IF checked.line # 0
           THEN /\ pc' = [pc EXCEPT ![w] = "done"]
                /\ loc' = [loc EXCEPT ![w] = [NoLocals EXCEPT !.req = req]]
                /\ resp' = [resp EXCEPT ![w] = checked]
           ELSE /\ pc' = [pc EXCEPT ![w] = "put"]
                /\ loc' = [loc EXCEPT ![w] =
                             [ req |-> req, at |-> now,
                               blob_name |-> generate_blob_name(req.filename, now) ]]
                /\ resp' = resp
  /\ UNCHANGED <<phase, conn, cc, now, store, nput, last, prev, applied>>

\* upload, lines 64-84: the put-object call and the reply.
Put(w) ==
  /\ phase = "serving"
  /\ pc[w] = "put"
  /\ \E outcome \in StoreOutcomes :
       LET r == upload_put(loc[w].req, loc[w].blob_name, outcome, store)
       IN  /\ store' = r.store
           /\ resp' = [resp EXCEPT ![w] = r]
           /\ applied' = IF outcome = "ok" THEN Append(applied, w) ELSE applied
           /\ nput' = nput + r.calls
  /\ pc' = [pc EXCEPT ![w] = "done"]
  /\ UNCHANGED <<phase, conn, cc, now, loc, last, prev>>

NextConc == Startup \/ Tick \/ (\E w \in Workers : Receive(w) \/ Put(w))

SpecConc == Init /\ [][NextConc]_vars

(***************************************************************************)
(* The claims.  The four checks of the upload endpoint are restated here   *)
(* from the specification's words, not through upload_checks.              *)
(***************************************************************************)
WithinLimit(req) == req.content_length <= MAX_CONTENT_LENGTH

FilePresent(req) == req.hasFile

FilenameGiven(req) == req.filename # <<>>

ExtensionAllowed(req) ==
  \E i \in 1..Len(req.filename) :
    /\ req.filename[i] = "."
    /\ \A j \in (i + 1)..Len(req.filename) : req.filename[j] # "."
    /\ Lower(SubSeq(req.filename, i + 1, Len(req.filename))) \in ALLOWED_EXTENSIONS

TypeIsImage(req) ==
  /\ Len(req.content_type) >= 6
  /\ SubSeq(req.content_type, 1, 6) = <<"i", "m", "a", "g", "e", "/">>

PassesChecks(req) ==
  FilePresent(req) /\ FilenameGiven(req) /\ ExtensionAllowed(req) /\ TypeIsImage(req)

Rejected(l, message) ==
  l.status = 400 /\ l.body = [ok |-> FALSE, error |-> message]

\* The key in a URL of this container.
KeyOf(url) == SubSeq(url, Len(cc_url) + 2, Len(url))

\* 8 digits, "T", 6 digits, "-", then a non-empty name of key characters
\* that does not start with a dot.
WellFormedKey(key) ==
  /\ Len(key) >= 17
  /\ \A i \in (1..8) \cup (10..15) : IsDigit(key[i])
  /\ key[9] = "T"
  /\ key[16] = "-"
  /\ key[17] # "."
  /\ \A i \in 17..Len(key) : IsKeyChar(key[i])

\* The blobs of container s under one key.
Under(s, key) == { b \in s : b.name = key }

\* C1: a request within the size limit is answered by the first of the four
\* checks (file present, filename given, extension allowed, type an image) that
\* fails, with status 400 and that check's message; a disallowed or missing
\* extension gives "Invalid file type" whatever the content type is.
C1_FirstFailingCheckAnswers ==
  (last.op = "upload" /\ WithinLimit(last.req)) =>
    /\ ~FilePresent(last.req) => Rejected(last, "No file provided")
    /\ (FilePresent(last.req) /\ ~FilenameGiven(last.req))
         => Rejected(last, "No file selected")
    /\ (FilePresent(last.req) /\ FilenameGiven(last.req)
          /\ ~ExtensionAllowed(last.req))
         => Rejected(last, "Invalid file type. Only image files allowed.")
    /\ (FilePresent(last.req) /\ FilenameGiven(last.req)
          /\ ExtensionAllowed(last.req) /\ ~TypeIsImage(last.req))
         => Rejected(last, "File must be an image")
    /\ PassesChecks(last.req) => last.status # 400

\* A file with a disallowed extension and a content type that is no image
\* either was answered by the extension check.
C1_Witness ==
  /\ last.op = "upload"
  /\ WithinLimit(last.req)
  /\ last.req.filename = <<"a", ".", "t", "x", "t">>
  /\ last.req.content_type = <<"t", "e", "x", "t", "/", "p", "l", "a", "i", "n">>
  /\ Rejected(last, "Invalid file type. Only image files allowed.")

\* What a successful upload leaves: the URL of a well-formed key, and one
\* blob under that key with the request's content and content type.
Uploaded(l, s) ==
  /\ l.status = 200
  /\ l.body.ok
  /\ StartsWith(l.body.url, cc_url \o <<"/">>)
  /\ WellFormedKey(KeyOf(l.body.url))
  /\ Under(s, KeyOf(l.body.url))
       = { Blob(KeyOf(l.body.url), l.req.content, l.req.content_type) }

\* C2 as stated: every upload (within the size limit) with an allowed
\* extension and an image content type succeeds with status 200.
C2_EveryValidUploadSucceeds ==
  (last.op = "upload" /\ WithinLimit(last.req) /\ PassesChecks(last.req))
    => Uploaded(last, store)

\* C2, amended: every upload within the size limit with an allowed extension
\* and an image content type whose put-object call does not raise succeeds
\* with status 200 and ok:true, its URL is the container URL, "/" and a key of
\* the shape 8 digits, T, 6 digits, "-", non-empty sanitized name, and the
\* store then holds one blob under that key, with the uploaded content and
\* the declared content type.
C2_ValidUploadSucceedsUnlessStoreRaises ==
  (last.op = "upload" /\ WithinLimit(last.req) /\ PassesChecks(last.req)
     /\ last.raised = "")
    => Uploaded(last, store)

\* An upload succeeded whose filename secure_filename had to change.
C2_Witness ==
  /\ last.op = "upload"
  /\ last.req.filename = <<".", ".", "/", "U+65E5", "a", ".", "P", "N", "G">>
  /\ last.status = 200
  /\ KeyOf(last.body.url)
       = << "2", "0", "2", "5", "0", "1", "0", "2", "T",
            "0", "0", "0", "0", "0", "0", "-", "a", ".", "P", "N", "G" >>

\* The successful upload `last` follows the successful upload `prev`, of the
\* same filename in the same second.
SameSecondAgain ==
  /\ prev.some
  /\ last.op = "upload"
  /\ last.status = 200
  /\ last.req.filename = prev.filename
  /\ last.at = prev.at

\* C3: two successive successful uploads of one filename within one second get
\* the same key; afterwards the store holds one blob under it, with the second
\* upload's content and content type, and every gallery listing holds the
\* key's URL once.
C3_SameSecondUploadReplaces ==
  SameSecondAgain =>
    /\ last.body.url = prev.url
    /\ Under(store, KeyOf(prev.url))
         = { Blob(KeyOf(prev.url), last.req.content, last.req.content_type) }
    /\ \A blob_list \in list_blobs(store) :
         Cardinality({ i \in 1..Len(gallery_urls(blob_list)) :
                         gallery_urls(blob_list)[i] = prev.url }) = 1

\* The second upload differed from the first in content and in content type.
C3_Witness ==
  /\ SameSecondAgain
  /\ last.req.content # prev.content
  /\ last.req.content_type # prev.content_type

\* C4: a gallery reply of status 200 lists the URL of every key in the
\* container once, nothing else, in descending order of the URL strings.
C4_GalleryListsAllDescending ==
  (last.op = "gallery" /\ last.status = 200) =>
    /\ last.body.ok
    /\ Len(last.body.gallery) = Cardinality(BlobNames(store))
    /\ { last.body.gallery[i] : i \in 1..Len(last.body.gallery) }
         = { cc_url \o <<"/">> \o key : key \in BlobNames(store) }
    /\ \A i, j \in 1..Len(last.body.gallery) :
         i < j => LexLess(last.body.gallery[j], last.body.gallery[i])

\* A gallery of two uploads, of 1 January and of 2 January: the later first.
C4_Witness ==
  /\ last.op = "gallery"
  /\ last.status = 200
  /\ Len(last.body.gallery) = 2
  /\ SubSeq(KeyOf(last.body.gallery[1]), 1, 8)
       = <<"2", "0", "2", "5", "0", "1", "0", "2">>
  /\ SubSeq(KeyOf(last.body.gallery[2]), 1, 8)
       = <<"2", "0", "2", "5", "0", "1", "0", "1">>

\* C5 as stated: with the connection string absent or malformed the process
\* still comes up and serves, and a health request is answered UNHEALTHY.
C5_ServesWithoutClient ==
  (phase # "boot" /\ conn # "valid") =>
    /\ phase = "serving"
    /\ last.op = "health" => (last.status = 503 /\ last.body.status = "UNHEALTHY")

\* C6: with the client initialized, a health request makes one metadata call;
\* the reply is 200 OK exactly when the call returned, and 503 DEGRADED with
\* the error in its message, never UNHEALTHY, when it raised.  Every health
\* reply is one of OK, DEGRADED and UNHEALTHY.
C6_HealthOutcomes ==
  last.op = "health" =>
    /\ last.body.status \in {"OK", "DEGRADED", "UNHEALTHY"}
    /\ cc # "None" =>
         /\ last.calls = 1
         /\ (last.status = 200 /\ last.body.status = "OK") <=> last.raised = ""
         /\ last.body.status = "OK" => last.status = 200
         /\ last.raised # "" =>
              /\ last.status = 503
              /\ last.body.status = "DEGRADED"
              /\ last.body.message = "Storage connection failed: " \o last.raised
         /\ last.body.status # "UNHEALTHY"

\* A health request whose metadata call raised.
C6_Witness ==
  /\ last.op = "health"
  /\ last.raised \in StoreErrors
  /\ last.body.status = "DEGRADED"

\* C7 as stated: an upload over the size limit is rejected before the
\* handler's logic runs (no statement of the handler makes the reply) and
\* before any store call, and the store is unchanged.
C7_OversizeRejectedBeforeHandler ==
  (last.op = "upload" /\ ~WithinLimit(last.req)) =>
    /\ last.line = 0
    /\ last.calls = 0
    /\ store = last.before

\* C8: what a store call raises in upload or gallery is answered with status
\* 500 and {ok:false, error:<message>} by the handler itself; an upload makes
\* at most one put-object call and a gallery request at most one list call.
C8_StoreErrorsAnswered500 ==
  last.op \in {"upload", "gallery"} =>
    /\ last.calls <= 1
    /\ last.raised \in StoreErrors =>
         /\ last.status = 500
         /\ last.body = [ok |-> FALSE, error |-> last.raised]
         /\ last.line \in {84, 102}
         /\ last.calls = 1
         /\ store = last.before

\* An upload whose put-object call raised.
C8_Witness ==
  /\ last.op = "upload"
  /\ PassesChecks(last.req)
  /\ last.raised \in StoreErrors
  /\ last.status = 500

\* Both workers have answered an upload that passed the checks, and both
\* generated the same key.
BothDoneSameKey ==
  /\ \A w \in Workers : pc[w] = "done" /\ loc[w].blob_name # <<>>
  /\ loc[1].blob_name = loc[2].blob_name

\* The worker whose put the store applied last.
LastApplied == applied[Len(applied)]

\* C9 as stated: both uploads of one key, handled at once, end with status 200
\* and the same URL, and the store holds one blob under the key, that of the
\* put applied last.
C9_BothConcurrentUploadsSucceed ==
  BothDoneSameKey =>
    /\ \A w \in Workers :
         resp[w].status = 200 /\ resp[w].body.url = blob_url(loc[w].blob_name)
    /\ Under(store, loc[1].blob_name)
         = { Blob(loc[1].blob_name, loc[LastApplied].req.content,
                  loc[LastApplied].req.content_type) }

\* C9, amended: of two uploads of one key handled at once, each whose
\* put-object call does not raise ends with status 200 and the URL of that
\* key, in every interleaving and with no conflict reported (the other gets
\* the store's error with status 500); if a put was applied the store holds
\* one blob under the key, with the content and content type of the put
\* applied last.
C9_LastAppliedPutWins ==
  BothDoneSameKey =>
    /\ \A w \in Workers :
         IF resp[w].raised = ""
         THEN /\ resp[w].status = 200
              /\ resp[w].body = [ok |-> TRUE, url |-> blob_url(loc[w].blob_name)]
         ELSE /\ resp[w].status = 500
              /\ resp[w].raised \in StoreErrors
    /\ Len(applied) = Cardinality({ w \in Workers : resp[w].raised = "" })
    /\ applied # <<>> =>
         Under(store, loc[1].blob_name)
           = { Blob(loc[1].blob_name, loc[LastApplied].req.content,
                    loc[LastApplied].req.content_type) }
    /\ applied = <<>> => Under(store, loc[1].blob_name) = {}

\* The store applied worker 2's put before worker 1's; the two uploads differ
\* in content and content type, and both were answered 200.
C9_Witness ==
  /\ BothDoneSameKey
  /\ applied = <<2, 1>>
  /\ loc[1].req.content # loc[2].req.content
  /\ loc[1].req.content_type # loc[2].req.content_type
  /\ resp[1].status = 200
  /\ resp[2].status = 200

\* C10: only an upload that passes the four checks changes the store, and it
\* writes one key; a rejected upload, a gallery, health or index request
\* leaves the store as it was; no key ever leaves the store.
C10_OnlyValidUploadsWrite ==
  /\ BlobNames(last.before) \subseteq BlobNames(store)
  /\ store # last.before =>
       /\ last.op = "upload"
       /\ PassesChecks(last.req)
  /\ (last.op = "upload" /\ PassesChecks(last.req)) =>
       /\ last.calls <= 1
       /\ last.status = 200 =>
            \E key \in BlobNames(store) :
              /\ { b \in store : b.name # key } = { b \in last.before : b.name # key }
              /\ Cardinality(Under(store, key)) = 1
  /\ (last.op = "upload" /\ last.status = 400) => store = last.before
  /\ last.op \in {"gallery", "health", "index"} => store = last.before

\* An upload added a key to a store that held another.
C10_Witness ==
  /\ last.op = "upload"
  /\ last.status = 200
  /\ last.before # {}
  /\ Cardinality(store) = Cardinality(last.before) + 1

====
